---- MODULE Spec2Model ----
(***************************************************************************)
(* The scripts of cgvrzon.github.io as state machines.                     *)
(*                                                                         *)
(* ValuesCarousel (Spec, SpecHover).  The repository holds two revisions:  *)
(*   "main"   src/js/main.js:302-482          (ring interpolation)         *)
(*   "values" src/js/values-carousel.js:11-103 (circular orbit)            *)
(* A behaviour runs one of them (variable version); definitions of the     *)
(* second revision carry the prefix vc_.                                   *)
(*                                                                         *)
(* Theme (SpecTheme, src/README.md:64-192), I18n (SpecI18n,                *)
(* src/unnamed/part_000:9-303) and Portfolio (SpecPortfolio,               *)
(* src/js/main.js:8-225 and src/unnamed/part_000:317-602) each have their  *)
(* own specification; the variables of the other modules stay as the page  *)
(* loaded them.                                                            *)
(*                                                                         *)
(* Numbers.  Timestamps are integer milliseconds.  progress and angle are  *)
(* kept as integers in units of 1/ProgressScale (1e-5 ring positions,      *)
(* 1e-5 radians), so  speed * delta / 1000  is exact:  0.45 * dt / 1000 =  *)
(* 45 * dt / 100000.  A transform `translate(dx px, dy px)` is the pair    *)
(* <<dx, dy>> in units of 1/ProgressScale px; the empty string '' is <<>>. *)
(* JavaScript arrays are 0-based: At(a, i) reads a[i].                     *)
(***************************************************************************)
EXTENDS Integers, Sequences, FiniteSets, TLC

VARIABLES
    version,            \* which revision of ValuesCarousel the page loaded
    markup,             \* what the document holds: "ok", "noGrid", "wrongCount"
    innerWidth,         \* window.innerWidth
    reducedMotion,      \* matchMedia('(prefers-reduced-motion: reduce)').matches
    pointerOver,        \* the last hover event delivered was a mouseenter
    now,                \* the clock, ms
    ticks,              \* clock advances so far (bounded by MaxTicks)
    initSaw,            \* "notRun", or what init() read: "reduced", "normal"
    listeners,          \* init() registered the three listeners
    progress,           \* main.js:314
    angle,              \* values-carousel.js:23
    animationId,        \* main.js:315, values-carousel.js:24
    lastTimestamp,      \* main.js:316, values-carousel.js:25
    positionsCaptured,  \* main.js:317
    basePositions,      \* main.js:313
    transform,          \* cards[i].style.transform, i = 0..5
    pending,            \* handles of the animation-frame callbacks scheduled
    resizeTimer,        \* main.js:431, values-carousel.js:67
    timers,             \* pending setTimeout callbacks: records [id, due]
    event,              \* the step that led to this state, with what it saw
    hover,              \* where the hover cycle stands, for the freeze claims
    burst,              \* the latest resize event and the callbacks run since
    run                 \* the uninterrupted run of frames under way, if any

\* The browser's storage, shared by Theme and I18n.
VARIABLES
    storageFull         \* localStorage.setItem throws

\* The Theme module (src/README.md:64-192).
VARIABLES
    themeItem,          \* localStorage item 'portfolio_theme', none when absent
    prefersLight,       \* matchMedia('(prefers-color-scheme: light)').matches
    toggleButton,       \* the document holds #theme-toggle
    themeReady,         \* Theme.init() has run
    dataTheme,          \* html's data-theme attribute, none when absent
    metaColor,          \* content of meta[name="theme-color"]
    transitionClass,    \* html carries the class theme-transitioning
    transitionTimers,   \* pending setTimeout callbacks of applyTheme
    toggled             \* the user has toggled the theme on this page

\* The I18n module (src/unnamed/part_000:9-303).
VARIABLES
    langItem,           \* localStorage item CONFIG.storageKey, none when absent
    navigatorLanguage,  \* navigator.language as its subtags, <<>> when undefined
    currentLang,        \* part_000:25
    translations,       \* part_000:26: the locale file loaded, or empty
    i18nInitialized,    \* part_000:27 (isInitialized)
    clickListeners,     \* click listeners bindEvents has added
    applied,            \* the translations the document's texts come from
    activeBtn,          \* the .lang-btn carrying class active, none at load
    dispatched,         \* languageChanged events dispatched
    inFlight,           \* calls awaiting fetchTranslations
    issued,             \* calls of init and setLanguage that began a fetch
    requested,          \* the last setLanguage call with a supported language
    fetchCount,         \* fetch() calls made
    returned            \* the latest settled call and its value

\* The Portfolio module (src/js/main.js:9-225, src/unnamed/part_000:317-602).
VARIABLES
    portfolioRev,       \* which revision the page loaded: "main.js", "part_000"
    ioSupported,        \* the browser defines IntersectionObserver
    skipLink,           \* the document holds .skip-link
    totalSteps,         \* .process-step cards (and markers); 0: no section
    portfolioInitialized, \* main.js:22, part_000:331 (isInitialized)
    portfolioCalls,     \* calls of Portfolio.init() so far
    bound,              \* listeners registered, counted by feature
    observers,          \* IntersectionObservers created
    relSecured,         \* external links carry rel noopener
    yearShown,          \* [data-current-year] elements show the year
    markerActive,       \* markers with class process__marker--active
    markerCompleted,    \* markers with class process__marker--completed
    cardActive,         \* step cards with class process-step--active
    fillWidth,          \* progressFill.style.width, percent as num / den
    selected            \* the step setActiveStep was last called with; 0: none

carouselVars ==
    <<version, markup, innerWidth, reducedMotion, pointerOver, now, ticks,
      initSaw, listeners, progress, angle, animationId, lastTimestamp,
      positionsCaptured, basePositions, transform, pending, resizeTimer,
      timers, hover, burst, run>>

themeVars == <<themeItem, prefersLight, toggleButton, themeReady,
               dataTheme, metaColor, transitionClass, transitionTimers, toggled>>

i18nVars == <<langItem, navigatorLanguage, currentLang, translations,
              i18nInitialized, clickListeners, applied, activeBtn, dispatched,
              inFlight, issued, requested, fetchCount, returned>>

portfolioVars == <<portfolioRev, ioSupported, skipLink, totalSteps,
                   portfolioInitialized, portfolioCalls, bound, observers,
                   relSecured, yearShown, markerActive, markerCompleted,
                   cardActive, fillWidth, selected>>

vars == <<carouselVars, event, storageFull, themeVars, i18nVars, portfolioVars>>

----------------------------------------------------------------------------
(* Bounds of the model *)

MaxTicks == 2
MaxPending == 2

MaxFrames == 3                 \* frames of one run that are counted
MaxTransitions == 2            \* theme transitions under way at once
MaxInits == 3                  \* calls of Portfolio.init()
MaxCalls == 2                  \* calls of I18n.init and setLanguage that fetch

Deltas == {100, 5000}          \* clock advances, ms
Widths == {600, 800, 1024}     \* viewport widths, px

----------------------------------------------------------------------------
(* Program constants *)

null == -1
none == "null"                 \* getItem / getAttribute giving null

speed == 45                    \* CONFIG.speed = 0.45, in hundredths
vc_speed == 15                 \* CONFIG.speed = 0.15, in hundredths
ProgressScale == 100 * 1000    \* hundredths, and the / 1000 of animate
minWidth == 768
cardCount == 6
ringOrder == <<0, 1, 3, 5, 4, 2>>
resizeDelay == 150

Cards == 0 .. (cardCount - 1)

At(a, i) == a[i + 1]

\* JavaScript's % takes the sign of the dividend.
JsMod(a, b) == IF a >= 0 THEN a % b ELSE -((-a) % b)

\* Math.floor of a value in units of 1/ProgressScale, as a whole number.
Floor(x) == IF x >= 0 THEN x \div ProgressScale
            ELSE -(((-x) + ProgressScale - 1) \div ProgressScale)

----------------------------------------------------------------------------
(* The document: layout and handles *)

\* Where the stylesheet puts card i, untransformed, at viewport width w,
\* relative to the grid: two columns of three; below the breakpoint a stack.
Layout(w, i) ==
    IF w < minWidth
    THEN [x |-> 0, y |-> i * 90]
    ELSE [x |-> (i % 2) * (w \div 4) + ((i \div 2) % 2) * 40,
          y |-> (i \div 2) * 120]

\* grid.getBoundingClientRect()
GridRect(w) == [left |-> (w - 2 * (w \div 4)) \div 2, top |-> 300]

\* c.getBoundingClientRect() of card i whose style.transform is tr, px.
\* (Only called with the transform stripped.)
CardRect(w, i, tr) ==
    LET off == IF tr = <<>> THEN <<0, 0>> ELSE tr
    IN  [left |-> GridRect(w).left + Layout(w, i).x + (off[1] \div ProgressScale),
         top  |-> GridRect(w).top + Layout(w, i).y + (off[2] \div ProgressScale)]

\* A handle not in use: handles are never reused while live.
FreshHandle(used) == CHOOSE h \in 1 .. (Cardinality(used) + 1) : h \notin used

prefersReducedMotion == reducedMotion

\* The animator's module-level state together with what it reaches in the
\* document, as one record the handlers transform.
Animator ==
    [progress |-> progress, angle |-> angle, animationId |-> animationId,
     lastTimestamp |-> lastTimestamp, positionsCaptured |-> positionsCaptured,
     basePositions |-> basePositions, transform |-> transform,
     pending |-> pending]

\* requestAnimationFrame(animate), the handle stored in animationId
requestAnimationFrame(s) ==
    LET h == FreshHandle(s.pending)
    IN  [s EXCEPT !.pending = @ \cup {h}, !.animationId = h]

\* cancelAnimationFrame(animationId); animationId = null
cancelAnimationFrame(s) ==
    [s EXCEPT !.pending = @ \ {s.animationId}, !.animationId = null]

----------------------------------------------------------------------------
(* main.js: ring interpolation *)

\* The interpolation run from b towards a.
lerp_FromB(a, b, t) == b * ProgressScale + (a - b) * t

lerp(a, b, t) == a * ProgressScale + (b - a) * t

ClearedTransforms == [i \in 1 .. cardCount |-> <<>>]

\* The measurement taken with the offsets still applied.
captureBasePositions_Unstripped(s, w) ==
    LET gridRect == GridRect(w)
        measured == [k \in 1 .. cardCount |->
                        LET r == CardRect(w, k - 1, s.transform[k])
                        IN  [x |-> r.left - gridRect.left,
                             y |-> r.top - gridRect.top]]
    IN  [s EXCEPT !.basePositions = measured,
                  !.positionsCaptured = TRUE]

captureBasePositions(s, w) ==
    LET savedTransforms == s.transform
        stripped == ClearedTransforms
        gridRect == GridRect(w)
        measured == [k \in 1 .. cardCount |->
                        LET r == CardRect(w, k - 1, stripped[k])
                        IN  [x |-> r.left - gridRect.left,
                             y |-> r.top - gridRect.top]]
    IN  [s EXCEPT !.basePositions = measured,
                  !.transform = savedTransforms,
                  !.positionsCaptured = TRUE]

\* ring.indexOf(cardIndex)
RingPos(cardIndex) ==
    IF \E p \in 0 .. (Len(ringOrder) - 1) : At(ringOrder, p) = cardIndex
    THEN CHOOSE p \in 0 .. (Len(ringOrder) - 1) :
            /\ At(ringOrder, p) = cardIndex
            /\ \A q \in 0 .. (p - 1) : At(ringOrder, q) # cardIndex
    ELSE -1

\* (ringPos + progress) % len, in units of 1/ProgressScale
Effective(ringPos, prog) ==
    JsMod(ringPos * ProgressScale + prog, Len(ringOrder) * ProgressScale)

\* Math.floor(effective) % len
PosA(effective) == JsMod(Floor(effective), Len(ringOrder))

\* posB without the wrap from the last ring position to the first.
PosB_NoWrap(posA) == posA + 1

\* (posA + 1) % len
PosB(posA) == JsMod(posA + 1, Len(ringOrder))

\* The weight without the floor taken off.
Weight_NoFloor(effective) == effective

\* effective - Math.floor(effective), in units of 1/ProgressScale
Weight(effective) == effective - Floor(effective) * ProgressScale

\* The transform applyPositions gives card cardIndex.
CardOffset(bp, prog, cardIndex) ==
    LET ringPos == RingPos(cardIndex)
        effective == Effective(ringPos, prog)
        posA == PosA(effective)
        posB == PosB(posA)
        t == Weight(effective)
        slotA == At(ringOrder, posA)
        slotB == At(ringOrder, posB)
        tx == lerp(At(bp, slotA).x, At(bp, slotB).x, t)
        ty == lerp(At(bp, slotA).y, At(bp, slotB).y, t)
        dx == tx - At(bp, cardIndex).x * ProgressScale
        dy == ty - At(bp, cardIndex).y * ProgressScale
    IN  <<dx, dy>>

applyPositions(s) ==
    [s EXCEPT !.transform =
        [k \in 1 .. cardCount |->
            IF RingPos(k - 1) = -1 THEN s.transform[k]
            ELSE CardOffset(s.basePositions, s.progress, k - 1)]]

\* A frame update that advances by a fixed step of 16 ms.
animate_FixedStep(s, timestamp) ==
    LET s1 == [s EXCEPT !.lastTimestamp = timestamp,
                        !.progress = @ + speed * 16]
    IN  requestAnimationFrame(applyPositions(s1))

animate(s, timestamp) ==
    LET last == IF s.lastTimestamp = null THEN timestamp ELSE s.lastTimestamp
        delta == timestamp - last           \* ms; the / 1000 is in ProgressScale
        s1 == [s EXCEPT !.lastTimestamp = timestamp,
                        !.progress = @ + speed * delta]
    IN  requestAnimationFrame(applyPositions(s1))

\* A mouseenter that does not ask for the motion preference.
handleMouseEnter_IgnoresPreference(s, w, reduced) ==
    IF w < minWidth THEN s
    ELSE LET s1 == IF ~s.positionsCaptured THEN captureBasePositions(s, w) ELSE s
         IN  requestAnimationFrame([s1 EXCEPT !.lastTimestamp = null])

handleMouseEnter(s, w, reduced) ==
    IF w < minWidth THEN s
    ELSE IF reduced THEN s
    ELSE LET s1 == IF ~s.positionsCaptured THEN captureBasePositions(s, w) ELSE s
         IN  requestAnimationFrame([s1 EXCEPT !.lastTimestamp = null])

\* A mouseleave that rewinds instead of freezing.
handleMouseLeave_Rewinds(s) ==
    IF s.animationId # null
    THEN [cancelAnimationFrame(s) EXCEPT !.progress = 0]
    ELSE s

handleMouseLeave(s) ==
    IF s.animationId # null THEN cancelAnimationFrame(s) ELSE s

\* The body without its test of the captured flag.
resizeBody_Unguarded(s, w) ==
    LET wasAnimating == s.animationId # null
        s1 == IF wasAnimating THEN cancelAnimationFrame(s) ELSE s
    IN  IF w < minWidth
        THEN [s1 EXCEPT !.transform = ClearedTransforms,
                        !.positionsCaptured = FALSE,
                        !.progress = 0]
        ELSE LET s2 == applyPositions(captureBasePositions(s1, w))
             IN  IF wasAnimating
                 THEN requestAnimationFrame([s2 EXCEPT !.lastTimestamp = null])
                 ELSE s2

\* The body without the restart of the loop it cancelled.
resizeBody_NoRestart(s, w) ==
    IF ~s.positionsCaptured THEN s
    ELSE LET wasAnimating == s.animationId # null
             s1 == IF wasAnimating THEN cancelAnimationFrame(s) ELSE s
         IN  IF w < minWidth
             THEN [s1 EXCEPT !.transform = ClearedTransforms,
                             !.positionsCaptured = FALSE,
                             !.progress = 0]
             ELSE applyPositions(captureBasePositions(s1, w))

\* The function handleResize hands to setTimeout.
resizeBody(s, w) ==
    IF ~s.positionsCaptured THEN s
    ELSE LET wasAnimating == s.animationId # null
             s1 == IF wasAnimating THEN cancelAnimationFrame(s) ELSE s
         IN  IF w < minWidth
             THEN [s1 EXCEPT !.transform = ClearedTransforms,
                             !.positionsCaptured = FALSE,
                             !.progress = 0]
             ELSE LET s2 == applyPositions(captureBasePositions(s1, w))
                  IN  IF wasAnimating
                      THEN requestAnimationFrame([s2 EXCEPT !.lastTimestamp = null])
                      ELSE s2

\* init(): TRUE when it registers the listeners.
\* init() without the card-count test.
initRegisters_AnyCount(m, reduced) ==
    IF m = "noGrid" THEN FALSE
    ELSE IF reduced THEN FALSE
    ELSE TRUE

initRegisters(m, reduced) ==
    IF m = "noGrid" THEN FALSE
    ELSE IF m = "wrongCount" THEN FALSE
    ELSE IF reduced THEN FALSE
    ELSE TRUE

----------------------------------------------------------------------------
(* values-carousel.js: circular orbit *)

\* The transform positionCards gives card i: the point of the orbit at
\* cardAngle = angle + i * step.  Two card angles of one card that differ by
\* a rational amount are different points, so the pair names the string.
vc_CardTransform(ang, i) == <<ang, i>>

vc_positionCards(s) ==
    [s EXCEPT !.transform =
        [k \in 1 .. cardCount |-> vc_CardTransform(s.angle, k - 1)]]

vc_animate(s, timestamp) ==
    LET last == IF s.lastTimestamp = null THEN timestamp ELSE s.lastTimestamp
        delta == timestamp - last
        s1 == [s EXCEPT !.lastTimestamp = timestamp,
                        !.angle = @ + vc_speed * delta]
    IN  requestAnimationFrame(vc_positionCards(s1))

vc_handleMouseEnter(s, w, reduced) ==
    IF w < minWidth THEN s
    ELSE IF reduced THEN s
    ELSE requestAnimationFrame([s EXCEPT !.lastTimestamp = null])

vc_handleMouseLeave(s) ==
    IF s.animationId # null THEN cancelAnimationFrame(s) ELSE s

vc_resizeBody(s, w) ==
    IF w < minWidth
    THEN LET s1 == IF s.animationId # null THEN cancelAnimationFrame(s) ELSE s
         IN  [s1 EXCEPT !.transform = ClearedTransforms, !.angle = 0]
    ELSE vc_positionCards(s)

vc_initRegisters(m) ==
    IF m = "noGrid" THEN FALSE
    ELSE IF m = "wrongCount" THEN FALSE
    ELSE TRUE

\* init() up to the listeners: the static initial placement.
vc_initPlacement(s, m, w, reduced) ==
    IF ~vc_initRegisters(m) THEN s
    ELSE IF w >= minWidth /\ ~reduced THEN vc_positionCards(s)
    ELSE s

----------------------------------------------------------------------------
(* The page as loaded, one module at a time *)

\* What localStorage may hold under the theme key when the page loads: nothing,
\* a value toggle() wrote, or a value something else wrote.
ThemeItems == {none, "dark", "light", "auto", ""}

\* The Theme module before Theme.init(), on a page the stylesheet shows dark.
ThemeAtLoad ==
    /\ themeItem = none
    /\ prefersLight = FALSE
    /\ toggleButton = TRUE
    /\ themeReady = FALSE
    /\ dataTheme = none
    /\ metaColor = "#0a0a0b"       \* themeColors.dark
    /\ transitionClass = FALSE
    /\ transitionTimers = 0
    /\ toggled = FALSE

\* The translations object before any file is loaded, and after a failed load.
empty == "{}"

\* The I18n module before I18n.init(), for a first-time Spanish visitor.
I18nAtLoad ==
    /\ langItem = none
    /\ navigatorLanguage = <<"es", "ES">>
    /\ currentLang = "es"
    /\ translations = empty
    /\ i18nInitialized = FALSE
    /\ clickListeners = 0
    /\ applied = empty
    /\ activeBtn = none
    /\ dispatched = 0
    /\ inFlight = {}
    /\ issued = 0
    /\ requested = [lang |-> none, overlapped |-> FALSE]
    /\ fetchCount = 0
    /\ returned = [call |-> "none", lang |-> none, value |-> "undefined"]

\* No listener of Portfolio registered.
Unbound == [smoothScroll |-> 0, skipLink |-> 0, languageChanged |-> 0,
            process |-> 0]

\* progressFill.style.width while the inline style holds no width.
noWidth == [num |-> 0, den |-> 0]

\* The Portfolio module before Portfolio.init(), on the full page.
PortfolioAtLoad ==
    /\ portfolioRev = "part_000"
    /\ ioSupported = TRUE
    /\ skipLink = TRUE
    /\ totalSteps = 4
    /\ portfolioInitialized = FALSE
    /\ portfolioCalls = 0
    /\ bound = Unbound
    /\ observers = 0
    /\ relSecured = FALSE
    /\ yearShown = FALSE
    /\ markerActive = {}
    /\ markerCompleted = {}
    /\ cardActive = {}
    /\ fillWidth = noWidth
    /\ selected = 0

\* The carousel before ValuesCarousel.init(), main.js on a wide page, the
\* motion preference apart.
CarouselAtLoad ==
    /\ version = "main"
    /\ markup = "ok"
    /\ innerWidth = 800
    /\ pointerOver = FALSE
    /\ now = 0
    /\ ticks = 0
    /\ initSaw = "notRun"
    /\ listeners = FALSE
    /\ progress = 0
    /\ angle = 0
    /\ animationId = null
    /\ lastTimestamp = null
    /\ positionsCaptured = FALSE
    /\ basePositions = <<>>
    /\ transform = [i \in 1 .. cardCount |-> <<>>]
    /\ pending = {}
    /\ resizeTimer = null
    /\ timers = {}
    /\ hover = [phase |-> "idle", leftAt |-> null]
    /\ burst = [last |-> null, runs |-> 0]
    /\ run = [first |-> null, base |-> 0, frames |-> 0]

----------------------------------------------------------------------------
(* The state machine *)

Commit(s) ==
    /\ progress' = s.progress
    /\ angle' = s.angle
    /\ animationId' = s.animationId
    /\ lastTimestamp' = s.lastTimestamp
    /\ positionsCaptured' = s.positionsCaptured
    /\ basePositions' = s.basePositions
    /\ transform' = s.transform
    /\ pending' = s.pending

\* What a step records: the handler that ran, whether it moved the rotation
\* (progress, angle) forward (1), back (-1) or not at all (0), and the
\* argument of the call when the claims need it.
Sign(n) == IF n > 0 THEN 1 ELSE IF n < 0 THEN -1 ELSE 0

Seen(name) ==
    [name |-> name,
     moved |-> Sign((progress' + angle') - (progress + angle)),
     arg |-> none]

\* The hover cycle as the claims speak of it: "frozen" from a mouseleave to
\* the next mouseenter that passes both guards, "resumed" from that
\* mouseenter to the first frame after it, "first" right after that frame.
\* leftAt is the rotation at the last mouseleave.  Hover events delivered
\* while no listener is registered reach no handler and do not count.
Qualifies == innerWidth >= minWidth /\ ~prefersReducedMotion

HoverAfter(name) ==
    CASE ~listeners -> hover
      [] name = "mouseleave" ->
            [phase |-> "frozen", leftAt |-> progress' + angle']
      [] name = "mouseenter" /\ Qualifies ->
            [hover EXCEPT !.phase = IF hover.phase = "frozen" THEN "resumed"
                                    ELSE IF @ = "idle" THEN "running" ELSE @]
      [] name = "frame" ->
            [hover EXCEPT !.phase = IF @ = "resumed" THEN "first"
                                    ELSE IF @ = "first" THEN "running" ELSE @]
      [] OTHER -> hover

Init ==
    /\ version \in {"main", "values"}
    /\ markup \in {"ok", "noGrid", "wrongCount"}
    /\ innerWidth \in Widths
    /\ reducedMotion \in BOOLEAN
    /\ pointerOver = FALSE
    /\ now = 0
    /\ ticks = 0
    /\ initSaw = "notRun"
    /\ listeners = FALSE
    /\ progress = 0
    /\ angle = 0
    /\ animationId = null
    /\ lastTimestamp = null
    /\ positionsCaptured = FALSE
    /\ basePositions = <<>>
    /\ transform = ClearedTransforms
    /\ pending = {}
    /\ resizeTimer = null
    /\ timers = {}
    /\ event = [name |-> "load", moved |-> 0, arg |-> none]
    /\ hover = [phase |-> "idle", leftAt |-> null]
    /\ burst = [last |-> null, runs |-> 0]
    /\ run = [first |-> null, base |-> 0, frames |-> 0]
    /\ storageFull = FALSE
    /\ ThemeAtLoad
    /\ I18nAtLoad
    /\ PortfolioAtLoad

\* ValuesCarousel.init(), called once when the page has loaded.
InitCall ==
    /\ initSaw = "notRun"
    /\ initSaw' = IF prefersReducedMotion THEN "reduced" ELSE "normal"
    /\ IF version = "main"
       THEN /\ listeners' = initRegisters(markup, prefersReducedMotion)
            /\ Commit(Animator)
       ELSE /\ listeners' = vc_initRegisters(markup)
            /\ Commit(vc_initPlacement(Animator, markup, innerWidth,
                                       prefersReducedMotion))
    /\ UNCHANGED <<version, markup, innerWidth, reducedMotion, pointerOver,
                   now, ticks, resizeTimer, timers>>
    /\ event' = Seen("init")

\* The browser delivers mouseenter on the grid.
MouseEnter ==
    /\ Cardinality(pending) < MaxPending
    /\ pointerOver' = TRUE
    /\ IF ~listeners THEN Commit(Animator)
       ELSE IF version = "main"
       THEN Commit(handleMouseEnter(Animator, innerWidth, prefersReducedMotion))
       ELSE Commit(vc_handleMouseEnter(Animator, innerWidth, prefersReducedMotion))
    /\ UNCHANGED <<version, markup, innerWidth, reducedMotion, now, ticks,
                   initSaw, listeners, resizeTimer, timers>>
    /\ event' = Seen("mouseenter")

\* The browser delivers mouseleave on the grid.
MouseLeave ==
    /\ pointerOver' = FALSE
    /\ IF ~listeners THEN Commit(Animator)
       ELSE IF version = "main"
       THEN Commit(handleMouseLeave(Animator))
       ELSE Commit(vc_handleMouseLeave(Animator))
    /\ UNCHANGED <<version, markup, innerWidth, reducedMotion, now, ticks,
                   initSaw, listeners, resizeTimer, timers>>
    /\ event' = Seen("mouseleave")

\* handleResize without its clearTimeout.
handleResize_NoClear(ts, rt, t) ==
    LET id == FreshHandle({x.id : x \in ts})
    IN  [timers |-> ts \cup {[id |-> id, due |-> t + resizeDelay]},
         resizeTimer |-> id]

\* handleResize: clearTimeout(resizeTimer); resizeTimer = setTimeout(body, 150)
handleResize(ts, rt, t) ==
    LET kept == {x \in ts : x.id # rt}
        id == FreshHandle({x.id : x \in kept})
    IN  [timers |-> kept \cup {[id |-> id, due |-> t + resizeDelay]},
         resizeTimer |-> id]

\* The window is resized to width w and the resize event is delivered.
WindowResize(w) ==
    /\ innerWidth' = w
    /\ IF listeners
       THEN LET r == handleResize(timers, resizeTimer, now)
            IN  /\ timers' = r.timers
                /\ resizeTimer' = r.resizeTimer
       ELSE UNCHANGED <<timers, resizeTimer>>
    /\ UNCHANGED <<version, markup, reducedMotion, pointerOver, now, ticks,
                   initSaw, listeners, progress, angle, animationId, lastTimestamp,
                   positionsCaptured, basePositions, transform, pending>>
    /\ event' = Seen("resize")

\* A setTimeout callback that is due runs.
ResizeTimerFires ==
    \E x \in timers :
        /\ x.due <= now
        /\ timers' = timers \ {x}
        /\ IF version = "main"
           THEN Commit(resizeBody(Animator, innerWidth))
           ELSE Commit(vc_resizeBody(Animator, innerWidth))
        /\ UNCHANGED <<version, markup, innerWidth, reducedMotion, pointerOver,
                       now, ticks, initSaw, listeners, resizeTimer>>
        /\ event' = Seen("resizeBody")

\* The callbacks of one animation frame, all with the frame's timestamp.
RECURSIVE RunCallbacks(_, _, _, _)
RunCallbacks(v, s, k, timestamp) ==
    IF k = 0 THEN s
    ELSE RunCallbacks(v,
                      IF v = "main" THEN animate(s, timestamp)
                      ELSE vc_animate(s, timestamp),
                      k - 1, timestamp)

\* The browser runs the scheduled animation-frame callbacks.
AnimationFrame ==
    /\ pending # {}
    /\ Commit(RunCallbacks(version, [Animator EXCEPT !.pending = {}],
                           Cardinality(pending), now))
    /\ UNCHANGED <<version, markup, innerWidth, reducedMotion, pointerOver,
                   now, ticks, initSaw, listeners, resizeTimer, timers>>
    /\ event' = Seen("frame")

\* Time passes.
Tick(d) ==
    /\ ticks < MaxTicks
    /\ now' = now + d
    /\ ticks' = ticks + 1
    /\ UNCHANGED <<version, markup, innerWidth, reducedMotion, pointerOver,
                   initSaw, listeners, progress, angle, animationId, lastTimestamp,
                   positionsCaptured, basePositions, transform, pending,
                   resizeTimer, timers>>
    /\ event' = Seen("tick")

\* The user changes the system's reduced-motion preference.
MotionPreferenceChange ==
    /\ reducedMotion' = ~reducedMotion
    /\ UNCHANGED <<version, markup, innerWidth, pointerOver, now, ticks,
                   initSaw, listeners, progress, angle, animationId, lastTimestamp,
                   positionsCaptured, basePositions, transform, pending,
                   resizeTimer, timers>>
    /\ event' = Seen("preference")

\* The hover history is not kept ...
Keep ==
    UNCHANGED <<hover, burst, run, storageFull, themeVars, i18nVars,
                portfolioVars>>

\* ... or is kept.
Track ==
    /\ hover' = HoverAfter(event'.name)
    /\ UNCHANGED <<burst, run, storageFull, themeVars, i18nVars, portfolioVars>>

Next ==
    \/ InitCall /\ Keep
    \/ MouseEnter /\ Keep
    \/ MouseLeave /\ Keep
    \/ \E w \in Widths : WindowResize(w) /\ Keep
    \/ ResizeTimerFires /\ Keep
    \/ AnimationFrame /\ Keep
    \/ \E d \in Deltas : Tick(d) /\ Keep
    \/ MotionPreferenceChange /\ Keep

NextHover ==
    \/ InitCall /\ Track
    \/ MouseEnter /\ Track
    \/ MouseLeave /\ Track
    \/ \E w \in Widths : WindowResize(w) /\ Track
    \/ ResizeTimerFires /\ Track
    \/ AnimationFrame /\ Track
    \/ \E d \in Deltas : Tick(d) /\ Track
    \/ MotionPreferenceChange /\ Track

\* The resize history: when the latest resize event reached handleResize and
\* how often the callback has run since.
BurstAfter(name) ==
    CASE name = "resize" /\ listeners -> [last |-> now, runs |-> 0]
      [] name = "resizeBody" -> [burst EXCEPT !.runs = @ + 1]
      [] OTHER -> burst

\* ... or the resize history is kept.
TrackBurst ==
    /\ burst' = BurstAfter(event'.name)
    /\ UNCHANGED <<hover, run, storageFull, themeVars, i18nVars, portfolioVars>>

\* A page with the carousel's markup in place and no reduced motion at load.
InitBurst == Init /\ markup = "ok" /\ ~reducedMotion

NextBurst ==
    \/ InitCall /\ TrackBurst
    \/ MouseEnter /\ TrackBurst
    \/ MouseLeave /\ TrackBurst
    \/ \E w \in Widths : WindowResize(w) /\ TrackBurst
    \/ ResizeTimerFires /\ TrackBurst
    \/ AnimationFrame /\ TrackBurst
    \/ \E d \in Deltas : Tick(d) /\ TrackBurst
    \/ MotionPreferenceChange /\ TrackBurst

\* The run of frames under way: it starts with the frame that finds
\* lastTimestamp null (first: its timestamp, base: the rotation it leaves),
\* goes on with every further frame, and ends with any call of init, a hover
\* handler or the resize callback.
RunAfter(name) ==
    CASE name = "frame" ->
            IF lastTimestamp = null
            THEN [first |-> now,
                  base |-> IF version = "main" THEN progress' ELSE angle',
                  frames |-> 1]
            ELSE IF run.first = null THEN run
            ELSE [run EXCEPT !.frames = IF @ < MaxFrames THEN @ + 1 ELSE @]
      [] name \in {"tick", "preference", "resize"} -> run
      [] OTHER -> [first |-> null, base |-> 0, frames |-> 0]

\* ... or the run of frames is kept.
TrackRun ==
    /\ run' = RunAfter(event'.name)
    /\ UNCHANGED <<hover, burst, storageFull, themeVars, i18nVars, portfolioVars>>

NextRun ==
    \/ InitCall /\ TrackRun
    \/ MouseEnter /\ TrackRun
    \/ MouseLeave /\ TrackRun
    \/ \E w \in Widths : WindowResize(w) /\ TrackRun
    \/ ResizeTimerFires /\ TrackRun
    \/ AnimationFrame /\ TrackRun
    \/ \E d \in Deltas : Tick(d) /\ TrackRun
    \/ MotionPreferenceChange /\ TrackRun

\* The carousel.
Spec == Init /\ [][Next]_vars

\* The carousel with the run of frames kept.
SpecRun == InitBurst /\ [][NextRun]_vars

\* The carousel with the resize history kept.
SpecBurst == InitBurst /\ [][NextBurst]_vars

\* The carousel with the hover history kept.
SpecHover == Init /\ [][NextHover]_vars

----------------------------------------------------------------------------
(* Theme (src/README.md:64-192) *)

themeColors == [dark |-> "#0a0a0b", light |-> "#fafafa"]

\* detectTheme with the OS preference consulted first.
detectTheme_OsFirst(stored, osLight) ==
    IF osLight THEN "light"
    ELSE IF stored = "dark" \/ stored = "light" THEN stored
    ELSE "dark"

\* detectTheme(): stored is localStorage.getItem(CONFIG.storageKey).
detectTheme(stored, osLight) ==
    IF stored = "dark" \/ stored = "light" THEN stored
    ELSE IF osLight THEN "light"
    ELSE "dark"

\* What applyTheme writes to.
ThemeDocument ==
    [dataTheme |-> dataTheme, metaColor |-> metaColor,
     transitionClass |-> transitionClass, transitionTimers |-> transitionTimers]

applyTheme(d, theme, animated) ==
    [dataTheme |-> IF theme = "light" THEN "light" ELSE none,
     metaColor |-> themeColors[theme],
     transitionClass |-> IF animated THEN TRUE ELSE d.transitionClass,
     transitionTimers |-> IF animated THEN d.transitionTimers + 1
                          ELSE d.transitionTimers]

CommitTheme(d) ==
    /\ dataTheme' = d.dataTheme
    /\ metaColor' = d.metaColor
    /\ transitionClass' = d.transitionClass
    /\ transitionTimers' = d.transitionTimers

\* !localStorage.getItem(CONFIG.storageKey): null and '' are falsy.
NoStoredTheme(stored) == stored = none \/ stored = ""

\* The change listener that always follows the OS.
OsChangeApplies_Always(stored) == TRUE

\* The test of the prefers-color-scheme change listener.
OsChangeApplies(stored) == NoStoredTheme(stored)

\* localStorage.setItem inside try/catch: a throw leaves the item as it was.
setItem(item, value, full) == IF full THEN item ELSE value

\* Theme.init(), run once when the DOM is ready.
ThemeInit ==
    /\ ~themeReady
    /\ themeReady' = TRUE
    /\ CommitTheme(applyTheme(ThemeDocument,
                              detectTheme(themeItem, prefersLight), FALSE))
    /\ UNCHANGED <<themeItem, storageFull, prefersLight, toggleButton, toggled>>
    /\ event' = [name |-> "Theme.init", moved |-> 0, arg |-> none]

\* A click on #theme-toggle: toggle().
ToggleClick ==
    /\ themeReady
    /\ toggleButton
    /\ transitionTimers < MaxTransitions
    /\ LET current == IF dataTheme = "light" THEN "light" ELSE "dark"
           next == IF current = "dark" THEN "light" ELSE "dark"
       IN  /\ CommitTheme(applyTheme(ThemeDocument, next, TRUE))
           /\ themeItem' = setItem(themeItem, next, storageFull)
    /\ toggled' = TRUE
    /\ UNCHANGED <<storageFull, prefersLight, toggleButton, themeReady>>
    /\ event' = [name |-> "toggle", moved |-> 0, arg |-> none]

\* The OS colour scheme changes; the change listener of init() runs if bound.
ColorSchemeChange ==
    /\ transitionTimers < MaxTransitions
    /\ prefersLight' = ~prefersLight
    /\ IF themeReady /\ OsChangeApplies(themeItem)
       THEN CommitTheme(applyTheme(ThemeDocument,
                                   IF prefersLight' THEN "light" ELSE "dark",
                                   TRUE))
       ELSE UNCHANGED <<dataTheme, metaColor, transitionClass, transitionTimers>>
    /\ UNCHANGED <<themeItem, storageFull, toggleButton, themeReady, toggled>>
    /\ event' = [name |-> "schemeChange", moved |-> 0, arg |-> none]

\* A setTimeout callback of applyTheme runs: the transition class goes.
TransitionEnds ==
    /\ transitionTimers > 0
    /\ transitionTimers' = transitionTimers - 1
    /\ transitionClass' = FALSE
    /\ UNCHANGED <<themeItem, storageFull, prefersLight, toggleButton,
                   themeReady, dataTheme, metaColor, toggled>>
    /\ event' = [name |-> "transitionEnd", moved |-> 0, arg |-> none]

\* What no step of Theme touches.
otherThanTheme == <<carouselVars, i18nVars, portfolioVars>>

InitTheme ==
    /\ CarouselAtLoad
    /\ reducedMotion = FALSE
    /\ I18nAtLoad
    /\ PortfolioAtLoad
    /\ storageFull \in BOOLEAN
    /\ event = [name |-> "load", moved |-> 0, arg |-> none]
    /\ themeItem \in ThemeItems
    /\ prefersLight \in BOOLEAN
    /\ toggleButton \in BOOLEAN
    /\ themeReady = FALSE
    /\ dataTheme = none
    /\ metaColor = themeColors.dark
    /\ transitionClass = FALSE
    /\ transitionTimers = 0
    /\ toggled = FALSE

NextTheme ==
    \/ ThemeInit /\ UNCHANGED otherThanTheme
    \/ ToggleClick /\ UNCHANGED otherThanTheme
    \/ ColorSchemeChange /\ UNCHANGED otherThanTheme
    \/ TransitionEnds /\ UNCHANGED otherThanTheme

SpecTheme == InitTheme /\ [][NextTheme]_vars

----------------------------------------------------------------------------
(* I18n (src/unnamed/part_000:9-303) *)

defaultLang == "es"
supportedLangs == <<"es", "en", "ca">>
undefined == "undefined"

\* What localStorage may hold under the language key when the page loads.
LangItems == {none, "es", "en", "ca", "fr", ""}

\* navigator.language, one subtag per element: 'en-US' is <<"en", "US">>.
NavigatorLanguages == {<<>>, <<"es", "ES">>, <<"en", "US">>, <<"ca">>,
                       <<"fr", "FR">>}

\* The arguments setLanguage is called with: a button's data-lang (null when
\* the attribute is missing) or a caller's string.
LangArgs == {"es", "en", "ca", "fr", none}

\* Array.prototype.includes
includes(a, x) == \E k \in 1 .. Len(a) : a[k] = x

\* The values an `if' or `&&' takes as false, among those met here.
Falsy(x) == x = none \/ x = undefined \/ x = ""

\* detectLanguage with the browser's language consulted first.
detectLanguage_BrowserFirst(storedLang, language) ==
    LET browserLang == IF language = <<>> THEN undefined ELSE Head(language)
    IN  IF ~Falsy(browserLang) /\ includes(supportedLangs, browserLang)
        THEN browserLang
        ELSE IF ~Falsy(storedLang) /\ includes(supportedLangs, storedLang)
        THEN storedLang
        ELSE defaultLang

\* detectLanguage(): storedLang is localStorage.getItem(CONFIG.storageKey),
\* browserLang is navigator.language?.split('-')[0].
detectLanguage(storedLang, language) ==
    LET browserLang == IF language = <<>> THEN undefined ELSE Head(language)
    IN  IF ~Falsy(storedLang) /\ includes(supportedLangs, storedLang)
        THEN storedLang
        ELSE IF ~Falsy(browserLang) /\ includes(supportedLangs, browserLang)
        THEN browserLang
        ELSE defaultLang

\* applyTranslations(): with the empty object every key is missing and no
\* element changes.
applyTranslations(shown, tr) == IF tr = empty THEN shown ELSE tr

\* The test setLanguage starts with, always passed.
setLanguageAccepts_Any(lang) == TRUE

\* The test setLanguage starts with.
setLanguageAccepts(lang) == includes(supportedLangs, lang)

\* A call that awaits fetchTranslations.
Call(fn, lang) ==
    [id |-> issued + 1, fn |-> fn, lang |-> lang, fetching |-> lang,
     tries |-> 1]

\* The record of the setLanguage calls made: the language of the last one
\* that passed the supported-language test, and whether any was made while
\* the fetch of an earlier setLanguage call had yet to settle.
Requested(lang) ==
    IF ~setLanguageAccepts(lang) THEN requested
    ELSE [lang |-> lang,
          overlapped |-> \/ requested.overlapped
                         \/ \E c \in inFlight : c.fn = "setLanguage"]

\* I18n.init() up to its await.
I18nInit ==
    /\ IF i18nInitialized
       THEN /\ returned' = [call |-> "init", lang |-> none, value |-> undefined]
            /\ UNCHANGED <<currentLang, inFlight, issued, fetchCount>>
       ELSE /\ issued < MaxCalls
            /\ currentLang' = detectLanguage(langItem, navigatorLanguage)
            /\ inFlight' = inFlight \cup {Call("init", currentLang')}
            /\ issued' = issued + 1
            /\ fetchCount' = fetchCount + 1
            /\ UNCHANGED returned
    /\ UNCHANGED <<langItem, navigatorLanguage, translations, i18nInitialized,
                   clickListeners, applied, activeBtn, dispatched, storageFull,
                   requested>>
    /\ event' = [name |-> "I18n.init", moved |-> 0, arg |-> none]

\* setLanguage(lang) up to its await, or to its return if it has none.
SetLanguage(lang) ==
    /\ IF ~setLanguageAccepts(lang)
       THEN /\ returned' = [call |-> "setLanguage", lang |-> lang,
                            value |-> "false"]
            /\ UNCHANGED <<inFlight, issued, fetchCount>>
       ELSE IF lang = currentLang
       THEN /\ returned' = [call |-> "setLanguage", lang |-> lang,
                            value |-> "true"]
            /\ UNCHANGED <<inFlight, issued, fetchCount>>
       ELSE /\ issued < MaxCalls
            /\ inFlight' = inFlight \cup {Call("setLanguage", lang)}
            /\ issued' = issued + 1
            /\ fetchCount' = fetchCount + 1
            /\ UNCHANGED returned
    /\ requested' = Requested(lang)
    /\ UNCHANGED <<langItem, navigatorLanguage, currentLang, translations,
                   i18nInitialized, clickListeners, applied, activeBtn,
                   dispatched, storageFull>>
    /\ event' = [name |-> "setLanguage", moved |-> 0, arg |-> lang]

\* init() from its await on, fetchTranslations having given tr.
InitResumes(c, tr) ==
    /\ translations' = tr
    /\ applied' = applyTranslations(applied, tr)
    /\ activeBtn' = currentLang
    /\ clickListeners' = clickListeners + 1
    /\ i18nInitialized' = TRUE
    /\ returned' = [call |-> "init", lang |-> c.lang, value |-> undefined]
    /\ UNCHANGED <<currentLang, langItem, dispatched>>

\* setLanguage from its await on, fetchTranslations having given tr.
SetLanguageResumes(c, tr) ==
    /\ translations' = tr
    /\ currentLang' = c.lang
    /\ applied' = applyTranslations(applied, tr)
    /\ activeBtn' = c.lang
    /\ langItem' = setItem(langItem, c.lang, storageFull)
    /\ dispatched' = dispatched + 1
    /\ returned' = [call |-> "setLanguage", lang |-> c.lang, value |-> "true"]
    /\ UNCHANGED <<i18nInitialized, clickListeners>>

\* The catch block that tries the default language whatever failed.
fallsBack_Always(lang) == TRUE

\* The catch block of fetchTranslations(lang): lang !== CONFIG.defaultLang
fallsBack(lang) == lang # defaultLang

\* The fetch of a call in flight settles: fetchTranslations returns the file,
\* or fetches the default language instead, or returns the empty object.
FetchSettles(c, ok) ==
    /\ c \in inFlight
    /\ IF ~ok /\ fallsBack(c.fetching)
       THEN /\ inFlight' = (inFlight \ {c})
                                \cup {[c EXCEPT !.fetching = defaultLang,
                                                !.tries = @ + 1]}
            /\ fetchCount' = fetchCount + 1
            /\ UNCHANGED <<currentLang, translations, i18nInitialized,
                           clickListeners, applied, activeBtn, langItem,
                           dispatched, returned>>
       ELSE /\ inFlight' = inFlight \ {c}
            /\ UNCHANGED fetchCount
            /\ LET tr == IF ok THEN c.fetching ELSE empty
               IN  IF c.fn = "init" THEN InitResumes(c, tr)
                   ELSE SetLanguageResumes(c, tr)
    /\ UNCHANGED <<navigatorLanguage, issued, storageFull, requested>>
    /\ event' = [name |-> "fetch", moved |-> 0, arg |-> none]

\* What no step of I18n touches.
otherThanI18n == <<carouselVars, themeVars, portfolioVars>>

InitI18n ==
    /\ CarouselAtLoad
    /\ reducedMotion = FALSE
    /\ ThemeAtLoad
    /\ PortfolioAtLoad
    /\ event = [name |-> "load", moved |-> 0, arg |-> none]
    /\ storageFull \in BOOLEAN
    /\ langItem \in LangItems
    /\ navigatorLanguage \in NavigatorLanguages
    /\ currentLang = defaultLang
    /\ translations = empty
    /\ i18nInitialized = FALSE
    /\ clickListeners = 0
    /\ applied = empty
    /\ activeBtn = none
    /\ dispatched = 0
    /\ inFlight = {}
    /\ issued = 0
    /\ requested = [lang |-> none, overlapped |-> FALSE]
    /\ fetchCount = 0
    /\ returned = [call |-> "none", lang |-> none, value |-> undefined]

NextI18n ==
    \/ I18nInit /\ UNCHANGED otherThanI18n
    \/ \E lang \in LangArgs : SetLanguage(lang) /\ UNCHANGED otherThanI18n
    \/ \E c \in inFlight : \E ok \in BOOLEAN :
            FetchSettles(c, ok) /\ UNCHANGED otherThanI18n

SpecI18n == InitI18n /\ [][NextI18n]_vars

----------------------------------------------------------------------------
(* Portfolio (src/js/main.js:8-225, src/unnamed/part_000:317-602) *)

\* How many step cards the process section may have; 0 when the page has none.
StepCounts == {0, 1, 4}

\* What init() works on; threw is set when a feature raised an exception.
PortfolioState ==
    [isInitialized |-> portfolioInitialized, bound |-> bound,
     observers |-> observers, relSecured |-> relSecured,
     yearShown |-> yearShown, markerActive |-> markerActive,
     markerCompleted |-> markerCompleted, cardActive |-> cardActive,
     fillWidth |-> fillWidth, threw |-> FALSE]

initSmoothScroll(s) == [s EXCEPT !.bound.smoothScroll = @ + 1]

\* new IntersectionObserver(...) is a ReferenceError where the browser has
\* none; nothing is observed when reduced motion is preferred.
initScrollAnimations(s, reduced, io) ==
    IF reduced THEN s
    ELSE IF ~io THEN [s EXCEPT !.threw = TRUE]
    ELSE [s EXCEPT !.observers = @ + 1]

initExternalLinks(s) == [s EXCEPT !.relSecured = TRUE]

initKeyboardNav(s, link) ==
    IF link THEN [s EXCEPT !.bound.skipLink = @ + 1] ELSE s

initDynamicYear(s) == [s EXCEPT !.yearShown = TRUE]

initLanguageListener(s) == [s EXCEPT !.bound.languageChanged = @ + 1]

\* setActiveStep(stepNumber) over `total' cards and markers.  With one card
\* the percentage is 0 / 0 and the width 'NaN%' is not a value the style
\* takes: the assignment leaves the width as it was.
setActiveStep(s, total, stepNumber) ==
    [s EXCEPT !.fillWidth = IF total = 1 THEN @
                            ELSE [num |-> (stepNumber - 1) * 100,
                                  den |-> total - 1],
              !.markerActive = {m \in 1 .. total : m = stepNumber},
              !.markerCompleted = {m \in 1 .. total : m < stepNumber},
              !.cardActive = {c \in 1 .. total : c = stepNumber}]

initProcessSection(s, total) ==
    IF total = 0 THEN s
    ELSE setActiveStep([s EXCEPT !.bound.process = @ + 1], total, 1)

\* The features of init() in order, main.js lacking the process section; an
\* exception ends the call where it is raised.
InitFeatures(s, rev, reduced, io, link, total) ==
    LET s1 == initScrollAnimations(initSmoothScroll(s), reduced, io)
        s2 == initLanguageListener(initDynamicYear(
                  initKeyboardNav(initExternalLinks(s1), link)))
        s3 == IF rev = "part_000" THEN initProcessSection(s2, total) ELSE s2
    IN  IF s1.threw THEN s1 ELSE [s3 EXCEPT !.isInitialized = TRUE]

\* The test init() starts with, never passed.
AlreadyInitialized_Never(flag) == FALSE

\* The test init() starts with.
AlreadyInitialized(flag) == flag

\* Portfolio.init()
init(s, rev, reduced, io, link, total) ==
    IF AlreadyInitialized(s.isInitialized) THEN s
    ELSE InitFeatures(s, rev, reduced, io, link, total)

CommitPortfolio(s) ==
    /\ portfolioInitialized' = s.isInitialized
    /\ bound' = s.bound
    /\ observers' = s.observers
    /\ relSecured' = s.relSecured
    /\ yearShown' = s.yearShown
    /\ markerActive' = s.markerActive
    /\ markerCompleted' = s.markerCompleted
    /\ cardActive' = s.cardActive
    /\ fillWidth' = s.fillWidth

\* A call of Portfolio.init(): the one made when the DOM is ready, or a later
\* one through the public API.
PortfolioInit ==
    /\ portfolioCalls < MaxInits
    /\ portfolioCalls' = portfolioCalls + 1
    /\ LET s == init(PortfolioState, portfolioRev, reducedMotion, ioSupported,
                     skipLink, totalSteps)
       IN  /\ CommitPortfolio(s)
           /\ selected' = IF s.bound.process > bound.process THEN 1
                           ELSE selected
           /\ event' = [name |-> "Portfolio.init", moved |-> 0,
                        arg |-> IF s.threw THEN "threw" ELSE "returned"]
    /\ UNCHANGED <<portfolioRev, ioSupported, skipLink, totalSteps>>

\* A click on a marker, or a click on or hover over a step card, of step n:
\* every listener registered for it runs setActiveStep(n).
StepSelected(n) ==
    /\ bound.process > 0
    /\ n \in 1 .. totalSteps
    /\ CommitPortfolio(setActiveStep(PortfolioState, totalSteps, n))
    /\ selected' = n
    /\ UNCHANGED <<portfolioRev, ioSupported, skipLink, totalSteps,
                   portfolioCalls>>
    /\ event' = [name |-> "setActiveStep", moved |-> 0, arg |-> none]

\* What no step of Portfolio touches.
otherThanPortfolio ==
    <<version, markup, innerWidth, pointerOver, now, ticks, initSaw, listeners,
      progress, angle, animationId, lastTimestamp, positionsCaptured,
      basePositions, transform, pending, resizeTimer, timers, hover, burst,
      run,
      storageFull, themeVars, i18nVars>>

InitPortfolio ==
    /\ CarouselAtLoad
    /\ reducedMotion \in BOOLEAN
    /\ storageFull = FALSE
    /\ ThemeAtLoad
    /\ I18nAtLoad
    /\ event = [name |-> "load", moved |-> 0, arg |-> none]
    /\ portfolioRev \in {"main.js", "part_000"}
    /\ ioSupported \in BOOLEAN
    /\ skipLink \in BOOLEAN
    /\ totalSteps \in StepCounts
    /\ portfolioInitialized = FALSE
    /\ portfolioCalls = 0
    /\ bound = Unbound
    /\ observers = 0
    /\ relSecured = FALSE
    /\ yearShown = FALSE
    /\ markerActive = {}
    /\ markerCompleted = {}
    /\ cardActive = {}
    /\ fillWidth = noWidth
    /\ selected = 0

NextPortfolio ==
    \/ PortfolioInit /\ UNCHANGED <<reducedMotion, otherThanPortfolio>>
    \/ \E n \in 1 .. 4 :
            StepSelected(n) /\ UNCHANGED <<reducedMotion, otherThanPortfolio>>
    \/ MotionPreferenceChange /\ Keep

SpecPortfolio == InitPortfolio /\ [][NextPortfolio]_vars

----------------------------------------------------------------------------
(* Claims *)

\* The rotation: progress in main.js, angle in values-carousel.js.
Rotation == IF version = "main" THEN progress ELSE angle

\* C1 -- Freeze: from a mouseleave until the next mouseenter that passes both
\* guards (width >= 768, reduced motion not requested), no step changes any
\* card's style.transform.
C1_FreezeUntilQualifyingEnter ==
    [][(hover.phase = "frozen" /\ hover'.phase = "frozen")
            => transform' = transform]_vars

\* C2 -- When the resize callback runs below 768 while the frame loop is
\* running, afterwards no frame callback is pending, every transform is
\* empty, progress is 0 and positions are uncaptured; and a mouseenter below
\* 768 starts no loop and changes no transform.
C2_NarrowResizeStopsAndClears ==
    [][/\ (event'.name = "resizeBody" /\ innerWidth < minWidth
                /\ animationId # null)
            => /\ pending' = {}
               /\ transform' = ClearedTransforms
               /\ Rotation' = 0
               /\ ~positionsCaptured'
       /\ (event'.name = "mouseenter" /\ innerWidth < minWidth)
            => /\ pending' = pending
               /\ transform' = transform]_vars

\* C3 -- If reduced motion was requested when init() ran, then ever after no
\* animation frame is scheduled and no card transform has been changed.
C3_ReducedAtInitDisablesForGood ==
    initSaw = "reduced" => (pending = {} /\ transform = ClearedTransforms)

\* C4 -- Every frame update that increases progress happens with the pointer
\* over the container, width >= 768 and reduced motion not requested.
C4_ProgressOnlyWhileActive ==
    (event.name = "frame" /\ event.moved = 1)
        => (pointerOver /\ innerWidth >= minWidth /\ ~reducedMotion)

\* C5 -- At most one animation-frame callback is pending, after any sequence
\* of init, hover, resize-timer and frame events.
C5_AtMostOneFramePending == Cardinality(pending) <= 1

\* C6 -- Progress never decreases except by being reset to exactly 0, and
\* only the resize callback running below the minimum width resets it.
C6_ProgressMonotoneExceptNarrowReset ==
    [][\/ Rotation' >= Rotation
       \/ /\ Rotation' = 0
          /\ event'.name = "resizeBody"
          /\ innerWidth < minWidth]_vars

\* C6, its case: the narrow resize callback has just lowered the rotation.
C6_Witness ==
    /\ event.name = "resizeBody"
    /\ event.moved = -1
    /\ innerWidth < minWidth
    /\ Rotation = 0

\* C7 -- Resume from the frozen offset: after the first frame that follows a
\* qualifying re-hover the rotation equals its value at the preceding
\* mouseleave; and the first frame of a run (lastTimestamp = null) adds
\* nothing.
C7_ResumeFromFrozenOffset ==
    /\ [](hover.phase = "first" => Rotation = hover.leftAt)
    /\ [][(event'.name = "frame" /\ lastTimestamp = null)
            => Rotation' = Rotation]_vars

\* C8 -- In every state each card's transform is the interpolated target for
\* the stored progress and base positions minus the card's own base position
\* (an empty transform counting as offset zero at progress 0).
C8_OffsetsMatchProgress ==
    version = "main" =>
        \A k \in 1 .. cardCount :
            \/ transform[k] = <<>> /\ progress = 0
            \/ /\ basePositions # <<>>
               /\ transform[k] = CardOffset(basePositions, progress, k - 1)

\* The ring positions of card c that applyPositions computes from progress.
EffectiveOf(c) == Effective(RingPos(c), progress)

\* Card c has gone round the end of the ring: ringPos + progress >= len.
Wrapped(c) ==
    RingPos(c) * ProgressScale + progress >= Len(ringOrder) * ProgressScale

\* C9 -- For every card the interpolation weight t that applyPositions
\* computes from the stored progress satisfies 0 <= t < 1.
C9_WeightInUnitInterval ==
    version = "main" =>
        \A c \in Cards :
            /\ 0 <= Weight(EffectiveOf(c))
            /\ Weight(EffectiveOf(c)) < ProgressScale

\* C9, its case: a frame has applied a progress at which some card has
\* wrapped round the ring with a fractional weight.
C9_Witness ==
    /\ version = "main"
    /\ event.name = "frame"
    /\ \E c \in Cards :
        /\ Wrapped(c)
        /\ Weight(EffectiveOf(c)) > 0
        /\ At(transform, c) = CardOffset(basePositions, progress, c)

\* C10 -- For every card the two ring positions chosen are in range and
\* cyclically adjacent: posA in 0..N-1, posB = (posA + 1) mod N, and slotB
\* follows slotA in the ring order, the last entry being followed by the
\* first.
C10_AdjacentRingSlots ==
    version = "main" =>
        \A c \in Cards :
            LET N == Len(ringOrder)
                posA == PosA(EffectiveOf(c))
                posB == PosB(posA)
            IN  /\ posA \in 0 .. (N - 1)
                /\ posB \in 0 .. (N - 1)
                /\ posB = (posA + 1) % N
                /\ RingPos(At(ringOrder, posB))
                        = (RingPos(At(ringOrder, posA)) + 1) % N

\* C10, its case: a frame has applied a progress at which some card lies
\* between the last ring position and the first.
C10_Witness ==
    /\ version = "main"
    /\ event.name = "frame"
    /\ progress > 0
    /\ \E c \in Cards :
        /\ PosA(EffectiveOf(c)) = Len(ringOrder) - 1
        /\ PosB(PosA(EffectiveOf(c))) = 0
        /\ At(transform, c) = CardOffset(basePositions, progress, c)

\* The target of card c as the specification words it, in units of
\* 1/ProgressScale px on one axis: with e = (p + g) mod N, p the ring position
\* of c, the point a + (b - a) * (e - floor e) between a = base[ring[floor e]]
\* and b = base[ring[(floor e + 1) mod N]].
RingTarget(base, g, c, axis) ==
    LET N == Len(ringOrder)
        p == CHOOSE q \in 0 .. (N - 1) : ringOrder[q + 1] = c
        e == (p * ProgressScale + g) % (N * ProgressScale)
        whole == e \div ProgressScale
        frac == e % ProgressScale
        a == base[ringOrder[whole + 1] + 1][axis]
        b == base[ringOrder[((whole + 1) % N) + 1] + 1][axis]
    IN  a * ProgressScale + (b - a) * frac

\* The target a frame has given card c: its transform plus its own base.
AppliedTarget(c, axis) ==
    (IF axis = "x" THEN At(transform, c)[1] ELSE At(transform, c)[2])
        + At(basePositions, c)[axis] * ProgressScale

\* C11 -- After a frame, every card's target is the interpolation between
\* the base positions of ring[floor e] and ring[(floor e + 1) mod N] with
\* weight e - floor e, e = (ringPos + progress) mod N, on each axis; at
\* progress 2.25 card 0's target is lerp(base[3], base[5], 0.25).
C11_TargetIsRingInterpolation ==
    (version = "main" /\ event.name = "frame") =>
        /\ \A c \in Cards : \A axis \in {"x", "y"} :
            AppliedTarget(c, axis) = RingTarget(basePositions, progress, c, axis)
        /\ progress = 225000 =>
            \A axis \in {"x", "y"} :
                AppliedTarget(0, axis)
                    = At(basePositions, 3)[axis] * ProgressScale
                        + (At(basePositions, 5)[axis] - At(basePositions, 3)[axis])
                            * 25000

\* C11, its case: a frame has applied progress 2.25 and card 0 sits a
\* quarter of the way from base[3] to base[5], away from its own base.
C11_Witness ==
    /\ version = "main"
    /\ event.name = "frame"
    /\ progress = 225000
    /\ At(transform, 0) # <<0, 0>>
    /\ AppliedTarget(0, "x")
            = At(basePositions, 3).x * ProgressScale
                + (At(basePositions, 5).x - At(basePositions, 3).x) * 25000

\* The resize handler's body at the current width.
ResizeBody(s) ==
    IF version = "main" THEN resizeBody(s, innerWidth)
    ELSE vc_resizeBody(s, innerWidth)

\* C12 -- Running the resize handler's body twice in immediate succession at
\* an unchanged width leaves the same card offsets, the same progress, the
\* same captured flag and the same running status as running it once.
C12_ResizeIdempotent ==
    listeners =>
        LET once == ResizeBody(Animator)
            twice == ResizeBody(once)
        IN  /\ twice.transform = once.transform
            /\ twice.progress = once.progress
            /\ twice.angle = once.angle
            /\ twice.positionsCaptured = once.positionsCaptured
            /\ twice.basePositions = once.basePositions
            /\ (twice.animationId # null) = (once.animationId # null)
            /\ Cardinality(twice.pending) = Cardinality(once.pending)

\* C12, its case: the body has just run on a wide window with the loop
\* running and the cards away from their base, and running it again
\* re-measures and re-applies.
C12_Witness ==
    /\ version = "main"
    /\ event.name = "resizeBody"
    /\ innerWidth >= minWidth
    /\ positionsCaptured
    /\ animationId # null
    /\ progress > 0
    /\ \E c \in Cards : At(transform, c) \notin {<<>>, <<0, 0>>}
    /\ ResizeBody(Animator).transform = transform

\* C13 -- When the container is absent or the card count is not 6, init()
\* registers no listener, and no hover, resize or frame event afterwards
\* changes the animator's state or any transform.
C13_BadMarkupStaysInert ==
    markup # "ok" =>
        /\ ~listeners
        /\ progress = 0
        /\ angle = 0
        /\ animationId = null
        /\ lastTimestamp = null
        /\ ~positionsCaptured
        /\ basePositions = <<>>
        /\ transform = ClearedTransforms
        /\ pending = {}
        /\ timers = {}
        /\ resizeTimer = null

\* C13, its case: init() has returned early on a page with the wrong number
\* of cards and the pointer has since entered the wide grid.
C13_Witness ==
    /\ markup = "wrongCount"
    /\ initSaw = "normal"
    /\ innerWidth >= minWidth
    /\ event.name = "mouseenter"
    /\ pointerOver
    /\ ticks > 0

\* The state of the three-state machine the animator's variables stand for;
\* a running handle without captured positions is none of the three.
MachineState ==
    IF positionsCaptured
    THEN IF animationId = null THEN "IdleCaptured" ELSE "Animating"
    ELSE IF animationId = null THEN "Uninitialized" ELSE "UncapturedRunning"

\* C14 -- The animator is always in one of Uninitialized, Idle-Captured and
\* Animating, and every step that changes the state is a listed transition:
\* out of Uninitialized by a hover enter that captures (and, in the same
\* handler, goes on to Animating); Idle-Captured to Animating on hover enter;
\* Animating to Idle-Captured on hover leave; any state to Uninitialized on a
\* narrow resize; Animating or Idle-Captured to Idle-Captured on a wide resize
\* with progress preserved.
C14_ThreeStateMachine ==
    [][version = "main" =>
        /\ MachineState' \in {"Uninitialized", "IdleCaptured", "Animating"}
        /\ MachineState' # MachineState =>
            \/ /\ MachineState = "Uninitialized"
               /\ MachineState' \in {"IdleCaptured", "Animating"}
               /\ event'.name = "mouseenter"
            \/ /\ MachineState = "IdleCaptured"
               /\ MachineState' = "Animating"
               /\ event'.name = "mouseenter"
            \/ /\ MachineState = "Animating"
               /\ MachineState' = "IdleCaptured"
               /\ event'.name = "mouseleave"
            \/ /\ MachineState' = "Uninitialized"
               /\ event'.name = "resizeBody"
               /\ innerWidth < minWidth
            \/ /\ MachineState \in {"Animating", "IdleCaptured"}
               /\ MachineState' = "IdleCaptured"
               /\ event'.name = "resizeBody"
               /\ innerWidth >= minWidth
               /\ progress' = progress]_vars

\* C15 -- When the resize callback runs with positions captured at a width
\* of at least 768, in that one step the base positions become the ones the
\* layout has at that width, progress is unchanged, every card's offset is the
\* one for that progress over the new base positions, and the frame loop is
\* running afterwards exactly when it was running before.
C15_WideResizeRecapturesAndReapplies ==
    [][(version = "main" /\ event'.name = "resizeBody" /\ positionsCaptured
            /\ innerWidth >= minWidth)
        => /\ positionsCaptured'
           /\ basePositions' = [k \in 1 .. cardCount |->
                                    [x |-> Layout(innerWidth, k - 1).x,
                                     y |-> Layout(innerWidth, k - 1).y]]
           /\ progress' = progress
           /\ \A c \in Cards : \A axis \in {"x", "y"} :
                AppliedTarget(c, axis)'
                    = RingTarget(basePositions', progress, c, axis)
           /\ (animationId' # null) = (animationId # null)
           /\ (pending' # {}) = (pending # {})
           /\ animationId' # null => animationId' \in pending']_vars

\* C15, its case: the callback has run at width 1024 with the loop running
\* and the cards rotated, and the base positions are those of that width.
C15_Witness ==
    /\ version = "main"
    /\ event.name = "resizeBody"
    /\ innerWidth = 1024
    /\ positionsCaptured
    /\ At(basePositions, 1).x = 256
    /\ progress > 0
    /\ animationId # null
    /\ animationId \in pending

\* C16 -- The theme Theme.init() detects and applies is the stored value
\* when localStorage holds exactly 'dark' or 'light', else 'light' when the
\* OS prefers light, else 'dark'; it is always 'dark' or 'light'.
C16_DetectionPriority ==
    LET detected == detectTheme(themeItem, prefersLight)
        shown == IF dataTheme = "light" THEN "light" ELSE "dark"
    IN  /\ detected \in {"dark", "light"}
        /\ themeItem \in {"dark", "light"} => detected = themeItem
        /\ (themeItem \notin {"dark", "light"} /\ prefersLight)
                => detected = "light"
        /\ (themeItem \notin {"dark", "light"} /\ ~prefersLight)
                => detected = "dark"
        /\ event.name = "Theme.init" =>
                (shown = detected /\ metaColor = themeColors[detected])

\* C16, its case: init() has shown a stored 'dark' although the OS prefers
\* light.
C16_Witness ==
    /\ event.name = "Theme.init"
    /\ themeItem = "dark"
    /\ prefersLight
    /\ dataTheme = none

\* C17 -- A change of the OS colour scheme alters the applied theme only
\* when the user has set no manual theme preference: never when a 'dark' or
\* 'light' preference is stored, and never once the user has toggled the
\* theme.
C17_OsChangeRespectsManualChoice ==
    [][(event'.name = "schemeChange" /\ dataTheme' # dataTheme)
        => (~toggled /\ themeItem \notin {"dark", "light"})]_vars

\* C18 -- setLanguage with a language outside {es, en, ca} resolves to
\* false in the step of the call, leaving currentLang, the loaded
\* translations, the stored preference, the document and the language
\* selector as they were, with no fetch issued and no languageChanged event
\* dispatched; a setLanguage call with a supported language settles with true.
C18_UnsupportedLanguageRejected ==
    [][/\ (event'.name = "setLanguage" /\ event'.arg \notin {"es", "en", "ca"})
            => /\ returned' = [call |-> "setLanguage", lang |-> event'.arg,
                               value |-> "false"]
               /\ currentLang' = currentLang
               /\ translations' = translations
               /\ langItem' = langItem
               /\ applied' = applied
               /\ activeBtn' = activeBtn
               /\ fetchCount' = fetchCount
               /\ inFlight' = inFlight
               /\ dispatched' = dispatched
       /\ (returned'.call = "setLanguage"
                /\ returned'.lang \in {"es", "en", "ca"})
            => returned'.value = "true"]_vars

\* C18, its case: with English loaded, setLanguage('fr') has just returned
\* false.
C18_Witness ==
    /\ event.name = "setLanguage"
    /\ event.arg = "fr"
    /\ returned = [call |-> "setLanguage", lang |-> "fr", value |-> "false"]
    /\ currentLang = "en"
    /\ translations = "en"
    /\ langItem = "en"
    /\ dispatched = 1

\* C19 -- The language detected is the stored preference when it is one of
\* es, en, ca; otherwise the primary subtag of navigator.language when that
\* is one of them; otherwise 'es'.  It is always one of es, en, ca, and it is
\* what I18n.init() makes the current language.
C19_LanguageDetectionPriority ==
    LET Supported == {"es", "en", "ca"}
        detected == detectLanguage(langItem, navigatorLanguage)
        expected == IF langItem \in Supported THEN langItem
                    ELSE IF navigatorLanguage # <<>>
                            /\ navigatorLanguage[1] \in Supported
                    THEN navigatorLanguage[1]
                    ELSE "es"
    IN  /\ detected \in Supported
        /\ detected = expected
        /\ (event.name = "I18n.init" /\ ~i18nInitialized)
                => currentLang = expected

\* C19, its case: init() has passed over a stored 'fr' and taken 'en' from
\* the browser's en-US.
C19_Witness ==
    /\ event.name = "I18n.init"
    /\ ~i18nInitialized
    /\ langItem = "fr"
    /\ navigatorLanguage = <<"en", "US">>
    /\ currentLang = "en"
    /\ inFlight # {}

C21_GuardedEnterChangesNothing ==
    [][(event'.name = "mouseenter" /\ (innerWidth < minWidth \/ reducedMotion))
        => UNCHANGED <<basePositions, positionsCaptured, pending, progress,
                       angle, lastTimestamp, animationId, transform>>]_vars

\* C21, its case: the carousel of main.js has run and been left, reduced
\* motion has been requested since, and a mouseenter on the wide grid has
\* been delivered to the handler.
C21_Witness ==
    /\ version = "main"
    /\ listeners
    /\ event.name = "mouseenter"
    /\ reducedMotion
    /\ innerWidth >= minWidth
    /\ positionsCaptured
    /\ progress > 0
    /\ animationId = null
    /\ pending = {}

\* C22 -- When the resize callback of main.js runs while no base positions
\* are captured (never captured, or discarded by a narrow reset), it changes
\* nothing at any width: progress, the captured flag, the running handle,
\* the base positions, the scheduled frames and every card transform stay.
C22_UncapturedResizeIsNoOp ==
    [][(version = "main" /\ event'.name = "resizeBody" /\ ~positionsCaptured)
        => UNCHANGED <<progress, positionsCaptured, animationId, lastTimestamp,
                       basePositions, pending, transform>>]_vars

\* C22, its case: positions were captured and then discarded by a narrow
\* reset, and the callback has since run again on a wide window.
C22_Witness ==
    /\ version = "main"
    /\ listeners
    /\ event.name = "resizeBody"
    /\ innerWidth >= minWidth
    /\ ~positionsCaptured
    /\ basePositions # <<>>
    /\ transform = ClearedTransforms
    /\ progress = 0

\* C23 -- Each resize event cancels the resize timer pending before it, so
\* at most one resize timer is pending at any time, the one set by the latest
\* resize event; the callback never runs less than 150 ms after the latest
\* resize event, and at most once after it: a burst of resize events less
\* than 150 ms apart is followed by one run, after its last event.
C23_ResizeDebounced ==
    /\ Cardinality(timers) <= 1
    /\ \A x \in timers : x.id = resizeTimer /\ x.due = burst.last + resizeDelay
    /\ timers # {} => burst.runs = 0
    /\ burst.runs <= 1
    /\ event.name = "resizeBody" =>
            (burst.last # null /\ now >= burst.last + resizeDelay)

\* C23, its case: two resize events 100 ms apart, the first one's timer
\* cancelled by the second, and the callback has run once, after the second.
C23_Witness ==
    /\ listeners
    /\ event.name = "resizeBody"
    /\ burst = [last |-> 100, runs |-> 1]
    /\ now = 5100
    /\ timers = {}

\* CONFIG.speed of the revision loaded, in hundredths.
SpeedOf == IF version = "main" THEN speed ELSE vc_speed

\* C24 -- Each frame adds speed x (timestamp - previous frame's timestamp)
\* / 1000 to the rotation, nothing when there is no previous timestamp, and
\* records its timestamp; so during an uninterrupted run the rotation exceeds
\* its value at the run's first frame by speed x (latest timestamp - first
\* timestamp) / 1000, however many frames the run has had.
C24_ProgressTracksElapsedTime ==
    /\ [][event'.name = "frame"
            => /\ Rotation' - Rotation
                    = IF lastTimestamp = null THEN 0
                      ELSE SpeedOf * (now - lastTimestamp)
               /\ lastTimestamp' = now]_vars
    /\ [](run.first # null
            => Rotation - run.base = SpeedOf * (lastTimestamp - run.first))

\* C24, its case: a run of three frames at 0, 100 and 5100 ms has advanced
\* progress by 0.45 x 5.1.
C24_Witness ==
    /\ version = "main"
    /\ event.name = "frame"
    /\ run.first = 0
    /\ run.frames = 3
    /\ lastTimestamp = 5100
    /\ progress - run.base = speed * 5100

\* C25 -- fetchTranslations always ends with a value: the file it fetched,
\* or, after a failed load, what a single further fetch of the default
\* language gives, or the empty object when the default language itself
\* failed to load.  No call makes more than two fetches.
C25_FetchFallsBackOnce ==
    /\ [](/\ \A c \in inFlight :
                /\ c.tries \in {1, 2}
                /\ c.tries = 1 => c.fetching = c.lang
                /\ c.tries = 2 => (c.fetching = "es" /\ c.lang # "es")
          /\ fetchCount <= 2 * issued)
    /\ [][event'.name = "fetch" =>
            \E c \in inFlight :
                \/ /\ c.tries = 1
                   /\ c.lang # "es"
                   /\ inFlight' = (inFlight \ {c})
                        \cup {[c EXCEPT !.fetching = "es", !.tries = 2]}
                   /\ fetchCount' = fetchCount + 1
                   /\ UNCHANGED <<translations, currentLang, returned>>
                \/ /\ inFlight' = inFlight \ {c}
                   /\ fetchCount' = fetchCount
                   /\ translations' \in {c.fetching, empty}
                   /\ translations' = empty => c.fetching = "es"]_vars

\* C25, its case: setLanguage('en') has resumed with the empty object after
\* the load of en and then the load of es failed.
C25_Witness ==
    /\ event.name = "fetch"
    /\ returned = [call |-> "setLanguage", lang |-> "en", value |-> "true"]
    /\ currentLang = "en"
    /\ translations = empty
    /\ fetchCount = 2
    /\ issued = 1
    /\ inFlight = {}

\* C26 -- In main.js, whenever a frame callback is pending and whenever a
\* frame update has just run, base positions are captured: applyPositions
\* never runs with positionsCaptured false.
C26_FramesOnlyWhenCaptured ==
    version = "main" =>
        /\ pending # {} => positionsCaptured
        /\ event.name = "frame" => positionsCaptured

\* C27 -- Once setLanguage calls have changed the language, whenever no
\* fetch is in flight the translations loaded, the translations shown,
\* currentLang and the stored preference name the same language.
C27_TranslationsMatchCurrentLang ==
    (inFlight = {} /\ dispatched > 0) =>
        /\ translations = currentLang
        /\ applied = currentLang
        /\ langItem = currentLang

\* C28 -- Last request wins: once setLanguage calls with supported languages
\* have overlapped and every fetch has settled, currentLang and the
\* translations loaded are those of the call made last, whatever order the
\* fetches settled in.
C28_LastRequestWins ==
    (inFlight = {} /\ requested.overlapped) =>
        /\ currentLang = requested.lang
        /\ translations = requested.lang

\* C29 -- I18n.init() initialises at most once even when its calls overlap:
\* at most one call of init is ever awaiting its translations, and the click
\* listener is bound at most once.
C29_InitOnceUnderOverlap ==
    /\ Cardinality({c \in inFlight : c.fn = "init"}) <= 1
    /\ clickListeners <= 1

\* The theme the document shows: light with data-theme="light", dark without.
AppliedTheme == IF dataTheme = "light" THEN "light" ELSE "dark"

\* C30 -- After Theme.init(), whenever localStorage holds 'dark' or 'light'
\* under the theme key the theme applied equals the value stored; each
\* toggle() applies the other theme and stores it, so that two consecutive
\* toggles bring back the theme applied and the theme stored.
C30_AppliedThemeIsStoredTheme ==
    /\ []((themeReady /\ themeItem \in {"dark", "light"})
            => AppliedTheme = themeItem)
    /\ [][event'.name = "toggle"
            => /\ AppliedTheme' # AppliedTheme
               /\ themeItem' = AppliedTheme']_vars

\* C31 -- Once the process section is initialised, after any clicks on
\* markers and clicks on or hovers over step cards: the one active card and
\* the one active marker are those of the step selected last, the completed
\* markers are those of the steps before it, and the progress fill has the
\* width (s - 1) / (total - 1) x 100%, between 0% and 100%.
C31_ProcessSectionShowsSelectedStep ==
    bound.process > 0 =>
        /\ cardActive = {selected}
        /\ markerActive = {selected}
        /\ markerCompleted = 1 .. (selected - 1)
        /\ fillWidth.den > 0
        /\ fillWidth.num * (totalSteps - 1)
               = (selected - 1) * 100 * fillWidth.den
        /\ fillWidth.num >= 0
        /\ fillWidth.num <= 100 * fillWidth.den

====
